---- MODULE Spec2Model ----
(***************************************************************************)
(* Model of solanatracker.py: SolanaTracker.perform_swap and               *)
(* SolanaTracker._transaction_sender_and_confirmation_waiter, the          *)
(* transaction submission and confirmation engine, together with the       *)
(* commitment-level comparator.                                            *)
(*                                                                         *)
(* One attempt is one sequential coroutine.  Its position (pc) advances    *)
(* at the awaited network calls: get_latest_blockhash,                     *)
(* send_raw_transaction, get_signature_statuses and get_block_height.      *)
(* The results of those calls are the inputs of the actions.  Times are    *)
(* kept in milliseconds, as the options give them.                         *)
(***************************************************************************)
EXTENDS Integers, Sequences, FiniteSets, TLC

\* Python's None.
None == "None"

----------------------------------------------------------------------------
(* Bounds and input sets *)

\* Largest confirmation_retries a caller passes.
MaxRetries == 2

\* str(signature) of the signatures the send call can return.
Signatures == {"sigA", "sigB"}

\* last_valid_block_height values returned by get_latest_blockhash.
RefHeights == {1000}

\* Heights returned by get_block_height.
BlockHeights == {800, 850, 900}

\* On-chain error details a status can carry.
ErrDetails == {"InstructionError", "InsufficientFunds"}

\* Payloads handed to perform_swap.
SwapResponses == {"no_txn", "bad_base64", "bad_bytes", "ok"}

----------------------------------------------------------------------------
(* Commitment levels *)

\* solana.rpc.commitment: Commitment is a str; these are the three constants.
Processed == "processed"
Confirmed == "confirmed"
Finalized == "finalized"

\* solders.transaction_status.TransactionConfirmationStatus members.
TCS_Processed == "TCS_Processed"
TCS_Confirmed == "TCS_Confirmed"
TCS_Finalized == "TCS_Finalized"
TCS_Members == {TCS_Processed, TCS_Confirmed, TCS_Finalized}

\* A status object that is none of the three members.
TCS_Unrecognized == "TCS_Unrecognized"

\* Every value the comparator is tried on: the members, an unrecognized
\* member, None, and the Commitment strings (a caller passing the
\* SolanaCommitment instead of the enum).
StatusValues ==
    TCS_Members \cup {TCS_Unrecognized, None, Processed, Confirmed, Finalized}

\* str(x) for the values above: an enum member prints as Class.Member, a
\* str prints as itself, None as "None".
PyStr(x) ==
    CASE x = TCS_Processed -> "TransactionConfirmationStatus.Processed"
      [] x = TCS_Confirmed -> "TransactionConfirmationStatus.Confirmed"
      [] x = TCS_Finalized -> "TransactionConfirmationStatus.Finalized"
      [] x = TCS_Unrecognized -> "TransactionConfirmationStatus.Unrecognized"
      [] OTHER -> x

\* str.lower() on the commitment strings a caller passes.
PyLower(s) ==
    CASE s = "Processed" -> "processed"
      [] s = "Confirmed" -> "confirmed"
      [] s = "Finalized" -> "finalized"
      [] s = "FINALIZED" -> "finalized"
      [] OTHER -> s

string_to_solana_commitment(s) ==
    LET s_lower == PyLower(PyStr(s))
    IN  IF s_lower = "processed" THEN Processed
        ELSE IF s_lower = "confirmed" THEN Confirmed
        ELSE IF s_lower = "finalized" THEN Finalized
        ELSE Confirmed

\* Raises ValueError for any other commitment; "ValueError" stands for it.
solana_commitment_to_transaction_confirmation_status(c) ==
    IF c = Processed THEN TCS_Processed
    ELSE IF c = Confirmed THEN TCS_Confirmed
    ELSE IF c = Finalized THEN TCS_Finalized
    ELSE "ValueError"

\* Variant: a status that is none of the three members ranks as Processed.
commitment_level_to_int_unknown_lowest(status) ==
    LET s == PyStr(status)
    IN  IF s = PyStr(TCS_Confirmed) THEN 1
        ELSE IF s = PyStr(TCS_Finalized) THEN 2
        ELSE 0

commitment_level_to_int(status) ==
    LET s == PyStr(status)
    IN  IF s = PyStr(TCS_Processed) THEN 0
        ELSE IF s = PyStr(TCS_Confirmed) THEN 1
        ELSE IF s = PyStr(TCS_Finalized) THEN 2
        ELSE -1

\* Variant: strict comparison of the levels.
is_commitment_level_sufficient_strict(current_status, desired_status) ==
    LET current_level == commitment_level_to_int(current_status)
        desired_level == commitment_level_to_int(desired_status)
    IN  IF current_level < 0 \/ desired_level < 0
        THEN FALSE
        ELSE current_level > desired_level

\* Variant: no guard for unknown levels.
is_commitment_level_sufficient_unguarded(current_status, desired_status) ==
    LET current_level == commitment_level_to_int(current_status)
        desired_level == commitment_level_to_int(desired_status)
    IN  current_level >= desired_level

is_commitment_level_sufficient(current_status, desired_status) ==
    LET current_level == commitment_level_to_int(current_status)
        desired_level == commitment_level_to_int(desired_status)
    IN  IF current_level < 0 \/ desired_level < 0
        THEN FALSE
        ELSE current_level >= desired_level

----------------------------------------------------------------------------
(* Options *)

DEFAULT_TRANSACTION_OPTIONS ==
    [ confirmation_retries |-> 30,
      confirmation_retry_timeout_ms |-> 1000,
      last_valid_block_height_buffer |-> 150,
      commitment |-> Confirmed,
      resend_interval_ms |-> 1000,
      confirmation_check_interval_ms |-> 1000,
      skip_confirmation_check |-> FALSE ]

\* old key -> new key
renamed_keys_map ==
    << <<"confirmation_retry_timeout", "confirmation_retry_timeout_ms">>,
       <<"confirmation_check_interval", "confirmation_check_interval_ms">>,
       <<"resend_interval", "resend_interval_ms">> >>

\* dict.get(key, default)
DictGet(d, key, default) == IF key \in DOMAIN d THEN d[key] ELSE default

\* Variant: the legacy key is left under its own name.
RenameKey_keep_old_name(current, options, old_key, new_key) == current

\* One pass of the renaming loop: current[new_key] = current.pop(old_key)
\* when the caller gave the old key and not the new one.
RenameKey(current, options, old_key, new_key) ==
    IF old_key \in DOMAIN options /\ new_key \notin DOMAIN options
       /\ old_key \in DOMAIN current
    THEN [k \in (DOMAIN current \ {old_key}) \cup {new_key} |->
             IF k = new_key THEN current[old_key] ELSE current[k]]
    ELSE current

RECURSIVE RenameKeys(_, _, _)
RenameKeys(current, options, i) ==
    IF i > Len(renamed_keys_map) THEN current
    ELSE RenameKeys(RenameKey(current, options,
                              renamed_keys_map[i][1], renamed_keys_map[i][2]),
                    options, i + 1)

\* perform_swap's option resolution: defaults, overridden by the caller's
\* keys, legacy keys renamed, commitment normalised to a SolanaCommitment.
ResolveOptions(options) ==
    LET overridden ==
            [k \in DOMAIN DEFAULT_TRANSACTION_OPTIONS \cup DOMAIN options |->
                IF k \in DOMAIN options THEN options[k]
                ELSE DEFAULT_TRANSACTION_OPTIONS[k]]
        renamed == RenameKeys(overridden, options, 1)
    IN  [renamed EXCEPT !["commitment"] =
            string_to_solana_commitment(
                DictGet(renamed, "commitment",
                        DEFAULT_TRANSACTION_OPTIONS["commitment"]))]

\* The option dictionaries callers pass.  Every one sets
\* confirmation_retries; the other keys are present or absent.
CommitmentChoices ==
    {<<>>} \cup {("commitment" :> c) : c \in {"processed", "Finalized", "max"}}

\* The timing keys: none (both default to 1000), a zero check interval, or
\* the legacy names with the values of the repository's example script.
TimingChoices ==
    { <<>>,
      ("confirmation_check_interval_ms" :> 0),
      ("confirmation_check_interval" :> 100)
          @@ ("confirmation_retry_timeout" :> 1000) }

BufferChoices ==
    {<<>>, ("last_valid_block_height_buffer" :> 100)}

SkipChoices ==
    {<<>>, ("skip_confirmation_check" :> TRUE)}

OptionInputs ==
    { ("confirmation_retries" :> n) @@ c @@ t @@ b @@ s :
        n \in 0..MaxRetries, c \in CommitmentChoices, t \in TimingChoices,
        b \in BufferChoices, s \in SkipChoices }

----------------------------------------------------------------------------
(* RPC responses *)

\* get_signature_statuses: the call raises, or value[0] is null, or it is a
\* status with an err (or None) and a confirmation_status (or None).  A
\* status with an err comes with no level or with the strongest one.
StatusResponses ==
    { [kind |-> "raise", err |-> None, confirmation_status |-> None],
      [kind |-> "null", err |-> None, confirmation_status |-> None] }
    \cup
    { [kind |-> "status", err |-> None, confirmation_status |-> c] :
        c \in TCS_Members \cup {TCS_Unrecognized, None} }
    \cup
    { [kind |-> "status", err |-> e, confirmation_status |-> c] :
        e \in ErrDetails, c \in {None, TCS_Finalized} }

----------------------------------------------------------------------------
(* The send_options dictionaries, as objects *)

DEFAULT_SEND_OPTIONS ==
    [skip_preflight |-> TRUE, preflight_commitment |-> Confirmed]

Attempts == {1, 2}

\* The module-level dictionaries and the one each attempt creates.
Ref_DEFAULT_SEND_OPTIONS == "DEFAULT_SEND_OPTIONS"
Ref_DEFAULT_TRANSACTION_OPTIONS_send_options ==
    "DEFAULT_TRANSACTION_OPTIONS['send_options']"
NewDict(p) ==
    IF p = 1 THEN "attempt 1 send_options" ELSE "attempt 2 send_options"

Refs ==
    {Ref_DEFAULT_SEND_OPTIONS, Ref_DEFAULT_TRANSACTION_OPTIONS_send_options}
    \cup {NewDict(p) : p \in Attempts}

\* Line 53: DEFAULT_TRANSACTION_OPTIONS holds a copy of DEFAULT_SEND_OPTIONS.
InitialHeap ==
    [r \in Refs |->
        IF r \in {Ref_DEFAULT_SEND_OPTIONS,
                  Ref_DEFAULT_TRANSACTION_OPTIONS_send_options}
        THEN DEFAULT_SEND_OPTIONS
        ELSE <<>>]

\* d.update(e)
DictUpdate(d, e) ==
    [k \in DOMAIN d \cup DOMAIN e |-> IF k \in DOMAIN e THEN e[k] ELSE d[k]]

\* Variant: the default dictionary itself is stored, not a copy of it.
dict_copy_same_object(ref, new) == ref

\* v_default.copy(): the object current_tx_options["send_options"] refers to.
dict_copy(ref, new) == new

NoTxOpts == [skip_preflight |-> FALSE, preflight_commitment |-> None]

\* A coroutine that has not been called yet.
NotStarted ==
    [ pc |-> "perform_swap",
      caller |-> [main |-> <<>>, send_options |-> <<>>],
      options |-> DEFAULT_TRANSACTION_OPTIONS,
      send_options |-> None,
      tx_opts |-> NoTxOpts,
      last_valid_block_height |-> 0,
      effective_lvbh |-> 0,
      attempt |-> 0 ]

----------------------------------------------------------------------------
(* State of one attempt *)

VARIABLES
    pc,              \* position of the coroutine
    options,         \* current_tx_options, resolved
    last_valid_block_height,
    effective_lvbh,
    signature,       \* str(signature) once the send returned
    attempt,         \* loop variable of the polling loop
    outcome,         \* value returned by perform_swap
    sends,           \* number of send_raw_transaction calls
    polls,           \* results of the get_signature_statuses calls, in order
    height_checks,   \* number of get_block_height calls in the loop
    heights_seen,    \* the heights those calls returned
    current_bh,      \* the height the last of them returned
    height_raised,   \* whether the last of them raised
    slept,           \* asyncio.sleep durations (ms) since the last status poll
    slept_before_poll, \* the sleeps between the previous poll and the last one
    current_status,  \* comparator called on its own: arguments and result
    desired_status,
    sufficient_result,
    blockhash_fetches, \* number of get_latest_blockhash calls
    caller_options,  \* option resolution on its own: the caller's dictionary
    cancel_requested, \* the caller has asked for the attempt to stop
    heap,            \* the send_options dictionaries, by identity
    attempts         \* two attempts at once: each coroutine's locals

vars ==
    << pc, options, last_valid_block_height, effective_lvbh, signature,
       attempt, outcome, sends, polls, height_checks, heights_seen,
       current_bh, height_raised, slept, slept_before_poll, current_status,
       desired_status, sufficient_result, blockhash_fetches, caller_options,
       cancel_requested, heap, attempts >>

comparator_vars == << current_status, desired_status, sufficient_result >>

\* What no step of an attempt touches.
outside_vars ==
    << comparator_vars, caller_options, cancel_requested, heap, attempts >>

height_vars == << height_checks, heights_seen, current_bh, height_raised >>

history_vars == << sends, polls, height_vars, slept, slept_before_poll >>

NoOutcome ==
    [type |-> None, signature |-> None, error_details |-> None,
     expired_at |-> {}, raised |-> FALSE]

\* Returned values.  A str is the signature; the others are exception
\* objects.  raised tells whether perform_swap returned the object or let
\* it propagate to its caller.
ReturnStr(sig) ==
    [type |-> "str", signature |-> sig, error_details |-> None,
     expired_at |-> {}, raised |-> FALSE]

TransactionFailedError(sig, err) ==
    [type |-> "TransactionFailedError", signature |-> sig,
     error_details |-> err, expired_at |-> {}, raised |-> FALSE]

TransactionExpiredError(sig, bh) ==
    [type |-> "TransactionExpiredError", signature |-> sig,
     error_details |-> None, expired_at |-> {bh}, raised |-> FALSE]

TransactionConfirmationTimeoutError(sig) ==
    [type |-> "TransactionConfirmationTimeoutError", signature |-> sig,
     error_details |-> None, expired_at |-> {}, raised |-> FALSE]

\* ValueError, RuntimeError, or the generic Exception of the outer handler:
\* none of them has a signature attribute.
OtherError(type) ==
    [type |-> type, signature |-> None, error_details |-> None,
     expired_at |-> {}, raised |-> FALSE]

\* class SolanaTrackerError and its subclasses.
SolanaTrackerErrors ==
    { "SolanaTrackerError", "TransactionFailedError",
      "TransactionExpiredError", "TransactionConfirmationTimeoutError" }

\* The exception e leaves the function: it propagates to the caller.
Propagate(e) == [e EXCEPT !.raised = TRUE]

\* Variant: every exception is wrapped in the tracker's own failure class.
WaiterExcept_wrap_as_failed(e) ==
    IF e.type \in SolanaTrackerErrors THEN e
    ELSE TransactionFailedError("N/A", e.type)

\* Lines 383-387: the waiter's `except Exception as e`: a SolanaTrackerError
\* is returned as it is, anything else as a new generic Exception.
WaiterExcept(e) ==
    IF e.type \in SolanaTrackerErrors THEN e
    ELSE OtherError("Exception")

\* Variant: only the base64 error is caught.
PerformSwapExcept_base64_only(e) ==
    IF e.type = "binascii.Error" THEN OtherError("ValueError")
    ELSE Propagate(e)

\* Lines 292-297: perform_swap's handlers: a base64 error becomes a
\* ValueError, any other Exception is returned as it is.
PerformSwapExcept(e) ==
    IF e.type = "binascii.Error" THEN OtherError("ValueError")
    ELSE e

\* An exception raised in perform_swap's try block, outside the waiter.
RaisedInSetup(e) == PerformSwapExcept(e)

\* An exception raised in the waiter's try block: what the waiter lets
\* through reaches perform_swap's handlers, the waiter being called in
\* perform_swap's try block.
RaisedInWaiter(e) ==
    LET r == WaiterExcept(e)
    IN  IF r.raised THEN PerformSwapExcept([r EXCEPT !.raised = FALSE])
        ELSE r

Init ==
    /\ pc = "perform_swap"
    /\ options = DEFAULT_TRANSACTION_OPTIONS
    /\ last_valid_block_height = 0
    /\ effective_lvbh = 0
    /\ signature = None
    /\ attempt = 0
    /\ outcome = NoOutcome
    /\ sends = 0
    /\ polls = <<>>
    /\ height_checks = 0
    /\ heights_seen = {}
    /\ current_bh = 0
    /\ height_raised = FALSE
    /\ slept = <<>>
    /\ slept_before_poll = <<>>
    /\ current_status = None
    /\ desired_status = None
    /\ sufficient_result = FALSE
    /\ blockhash_fetches = 0
    /\ caller_options = <<>>
    /\ cancel_requested = FALSE
    /\ heap = InitialHeap
    /\ attempts = [p \in Attempts |-> NotStarted]

----------------------------------------------------------------------------
(* perform_swap: setup *)

Terminate(result) ==
    /\ pc' = "done"
    /\ outcome' = result

\* Lines 198-264: resolve the options, then check and decode the payload.
PerformSwap(swap_response, opts) ==
    /\ pc = "perform_swap"
    /\ options' = ResolveOptions(opts)
    /\ IF swap_response = "no_txn"
       THEN Terminate(OtherError("ValueError"))
       ELSE IF swap_response = "bad_base64"
       THEN Terminate(RaisedInSetup(OtherError("binascii.Error")))
       ELSE IF swap_response = "bad_bytes"
       THEN Terminate(RaisedInSetup(OtherError("Exception")))
       ELSE /\ pc' = "get_latest_blockhash"
            /\ UNCHANGED outcome
    /\ UNCHANGED << last_valid_block_height, effective_lvbh, signature,
                    attempt, blockhash_fetches >>
    /\ UNCHANGED history_vars
    /\ UNCHANGED outside_vars

\* get_latest_blockhash: the call raises, or its value is empty, or it
\* carries a last_valid_block_height.
LatestBlockhashResponses ==
    { [kind |-> "raise", last_valid_block_height |-> 0],
      [kind |-> "empty", last_valid_block_height |-> 0] }
    \cup { [kind |-> "value", last_valid_block_height |-> h] : h \in RefHeights }

\* Variant: the buffer is added to the reference height.
EffectiveLvbh_plus(lvbh, buffer) == lvbh + buffer

\* Lines 316-319: effective_lvbh.
EffectiveLvbh(lvbh, buffer) == lvbh - buffer

\* Variant: the response's value is used without being looked at.
BlockhashValuePresent_unchecked(resp) == TRUE

\* Line 269: `if not blockhash_resp.value` is false.
BlockhashValuePresent(resp) == resp.kind # "empty"

\* Lines 268-291 and 308-322: the blockhash fetch, then the waiter's entry
\* up to the send.
GetLatestBlockhash(resp) ==
    /\ pc = "get_latest_blockhash"
    /\ blockhash_fetches' = blockhash_fetches + 1
    /\ IF resp.kind = "raise"
       THEN /\ Terminate(RaisedInSetup(OtherError("Exception")))
            /\ UNCHANGED << last_valid_block_height, effective_lvbh >>
       ELSE IF ~BlockhashValuePresent(resp)
       THEN /\ Terminate(OtherError("RuntimeError"))
            /\ UNCHANGED << last_valid_block_height, effective_lvbh >>
       ELSE /\ last_valid_block_height' = resp.last_valid_block_height
            /\ effective_lvbh' =
                 EffectiveLvbh(resp.last_valid_block_height,
                     DictGet(options, "last_valid_block_height_buffer",
                         DEFAULT_TRANSACTION_OPTIONS["last_valid_block_height_buffer"]))
            /\ IF solana_commitment_to_transaction_confirmation_status(
                      options["commitment"]) = "ValueError"
               THEN Terminate(RaisedInSetup(OtherError("ValueError")))
               ELSE /\ pc' = "send"
                    /\ UNCHANGED outcome
    /\ UNCHANGED << options, signature, attempt >>
    /\ UNCHANGED history_vars
    /\ UNCHANGED outside_vars

----------------------------------------------------------------------------
(* _transaction_sender_and_confirmation_waiter *)

desired_conf_status_enum ==
    solana_commitment_to_transaction_confirmation_status(options["commitment"])

retries ==
    DictGet(options, "confirmation_retries",
            DEFAULT_TRANSACTION_OPTIONS["confirmation_retries"])

check_interval_ms ==
    DictGet(options, "confirmation_check_interval_ms",
            DEFAULT_TRANSACTION_OPTIONS["confirmation_check_interval_ms"])

retry_timeout_ms ==
    DictGet(options, "confirmation_retry_timeout_ms",
            DEFAULT_TRANSACTION_OPTIONS["confirmation_retry_timeout_ms"])

\* options.get("skip_confirmation_check")
skip_confirmation_check ==
    DictGet(options, "skip_confirmation_check", FALSE)

\* send_raw_transaction: the call raises, or returns a signature.
SendResponses ==
    { [kind |-> "raise", value |-> None] }
    \cup { [kind |-> "value", value |-> sig] : sig \in Signatures }

\* Variant: the skip shortcut is missing.
AfterSend_no_skip(skip, n_retries) ==
    IF 0 < n_retries + 1 THEN "poll"
    ELSE "timeout"

\* Lines 332-341: what follows a successful send: the skip shortcut, the
\* first iteration of range(retries + 1), or an empty range.
AfterSend(skip, n_retries) ==
    IF skip THEN "return_signature"
    ELSE IF 0 < n_retries + 1 THEN "poll"
    ELSE "timeout"

\* Lines 324-341: the send, the skip shortcut, the loop's entry.
SendRawTransaction(resp) ==
    /\ pc = "send"
    /\ sends' = sends + 1
    /\ IF resp.kind = "raise"
       THEN /\ Terminate(RaisedInWaiter(OtherError("Exception")))
            /\ UNCHANGED << signature, attempt >>
       ELSE /\ signature' = resp.value
            /\ attempt' = 0
            /\ LET next == AfterSend(skip_confirmation_check, retries)
               IN  IF next = "return_signature"
                   THEN Terminate(ReturnStr(resp.value))
                   ELSE IF next = "poll"
                   THEN /\ pc' = "poll"
                        /\ UNCHANGED outcome
                   ELSE Terminate(
                            TransactionConfirmationTimeoutError(resp.value))
    /\ UNCHANGED << options, last_valid_block_height, effective_lvbh,
                    blockhash_fetches >>
    /\ UNCHANGED << polls, height_vars, slept, slept_before_poll >>
    /\ UNCHANGED outside_vars

\* Lines 344-345: the sleep at the top of an iteration.
SleepBeforePoll(i, interval_ms) ==
    IF i > 0 \/ interval_ms > 0 THEN <<interval_ms>> ELSE <<>>

\* Variant: the confirmation level is looked at before the error.
ClassifyStatus_level_first(status_resp, desired) ==
    IF status_resp.kind = "raise" THEN "error"
    ELSE IF status_resp.kind = "status"
    THEN IF status_resp.confirmation_status # None
            /\ is_commitment_level_sufficient(
                   status_resp.confirmation_status, desired)
         THEN "confirmed"
         ELSE IF status_resp.err # None THEN "failed"
         ELSE "pending"
    ELSE "pending"

\* Variant: the error of a status that is already finalized is passed over.
ClassifyStatus_finalized_first(status_resp, desired) ==
    IF status_resp.kind = "raise" THEN "error"
    ELSE IF status_resp.kind = "status"
    THEN IF status_resp.err # None
            /\ status_resp.confirmation_status # TCS_Finalized
         THEN "failed"
         ELSE IF status_resp.confirmation_status # None
                 /\ is_commitment_level_sufficient(
                        status_resp.confirmation_status, desired)
         THEN "confirmed"
         ELSE "pending"
    ELSE "pending"

\* Lines 347-369: what one status response leads to.
ClassifyStatus(status_resp, desired) ==
    IF status_resp.kind = "raise" THEN "error"
    ELSE IF status_resp.kind = "status"
    THEN IF status_resp.err # None THEN "failed"
         ELSE IF status_resp.confirmation_status # None
                 /\ is_commitment_level_sufficient(
                        status_resp.confirmation_status, desired)
         THEN "confirmed"
         ELSE "pending"
    ELSE "pending"

\* Variant: the except branch does not sleep.
SleepAfterStatusError_none(timeout_ms) == <<>>

\* Lines 366-369: the sleep of the except branch.
SleepAfterStatusError(timeout_ms) == <<timeout_ms>>

\* Variant: range(retries + 2).
LoopContinues_one_more(i, n_retries) == i + 1 < n_retries + 2

\* Lines 341 and 379-381: range(retries + 1) has an iteration after
\* iteration i.
LoopContinues(i, n_retries) == i + 1 < n_retries + 1

\* Variant: the height check stands in the except branch.
HeightCheckFollows_after_error_only(class) == class = "error"

\* Lines 371-377 stand in the loop body, after the try statement: the
\* height is checked at the end of every iteration that has not returned,
\* whatever its status response was.
HeightCheckFollows(class) == TRUE

\* Variant: the transaction is sent again on every iteration but the first.
ResendInLoop_every_iteration(i) == i > 0

\* Lines 341-377: the loop body holds no send_raw_transaction call
\* (resend_interval_ms is read nowhere).
ResendInLoop(i) == FALSE

\* Lines 341-369: one iteration up to the height check.
GetSignatureStatuses(status_resp) ==
    /\ pc = "poll"
    /\ sends' = IF ResendInLoop(attempt) THEN sends + 1 ELSE sends
    /\ slept_before_poll' = slept \o SleepBeforePoll(attempt, check_interval_ms)
    /\ polls' = Append(polls, status_resp)
    /\ LET class == ClassifyStatus(status_resp, desired_conf_status_enum)
       IN  IF class = "failed"
           THEN /\ Terminate(TransactionFailedError(signature, status_resp.err))
                /\ slept' = <<>>
                /\ UNCHANGED attempt
           ELSE IF class = "confirmed"
           THEN /\ Terminate(ReturnStr(signature))
                /\ slept' = <<>>
                /\ UNCHANGED attempt
           ELSE /\ slept' = IF class = "error"
                            THEN SleepAfterStatusError(retry_timeout_ms)
                            ELSE <<>>
                /\ IF HeightCheckFollows(class)
                   THEN /\ pc' = "height"
                        /\ UNCHANGED << outcome, attempt >>
                   ELSE IF LoopContinues(attempt, retries)
                   THEN /\ attempt' = attempt + 1
                        /\ pc' = "poll"
                        /\ UNCHANGED outcome
                   ELSE /\ Terminate(
                               TransactionConfirmationTimeoutError(signature))
                        /\ UNCHANGED attempt
    /\ UNCHANGED << options, last_valid_block_height, effective_lvbh,
                    signature, height_vars, blockhash_fetches >>
    /\ UNCHANGED outside_vars

\* get_block_height: the call raises, or returns a height.
BlockHeightResponses ==
    { [kind |-> "raise", value |-> 0] }
    \cup { [kind |-> "value", value |-> h] : h \in BlockHeights }

\* Line 374: the condition under which the loop reports expiry.
ExpiryCondition(bh, lvbh) == bh < lvbh

\* Lines 371-381: the height check that ends every iteration, and the
\* timeout once range(retries + 1) is used up.
GetBlockHeight(resp) ==
    /\ pc = "height"
    /\ height_checks' = height_checks + 1
    /\ height_raised' = (resp.kind = "raise")
    /\ IF resp.kind = "raise"
       THEN UNCHANGED << heights_seen, current_bh >>
       ELSE /\ heights_seen' = heights_seen \cup {resp.value}
            /\ current_bh' = resp.value
    /\ IF resp.kind = "raise"
       THEN /\ Terminate(RaisedInWaiter(OtherError("Exception")))
            /\ UNCHANGED attempt
       ELSE IF ExpiryCondition(resp.value, effective_lvbh)
       THEN /\ Terminate(TransactionExpiredError(signature, resp.value))
            /\ UNCHANGED attempt
       ELSE IF LoopContinues(attempt, retries)
       THEN /\ attempt' = attempt + 1
            /\ pc' = "poll"
            /\ UNCHANGED outcome
       ELSE /\ Terminate(TransactionConfirmationTimeoutError(signature))
            /\ UNCHANGED attempt
    /\ UNCHANGED << options, last_valid_block_height, effective_lvbh,
                    signature, sends, polls, slept, slept_before_poll,
                    blockhash_fetches >>
    /\ UNCHANGED outside_vars

Next ==
    \/ \E swap_response \in SwapResponses, opts \in OptionInputs :
           PerformSwap(swap_response, opts)
    \/ \E resp \in LatestBlockhashResponses : GetLatestBlockhash(resp)
    \/ \E resp \in SendResponses : SendRawTransaction(resp)
    \/ \E status_resp \in StatusResponses : GetSignatureStatuses(status_resp)
    \/ \E resp \in BlockHeightResponses : GetBlockHeight(resp)

Spec == Init /\ [][Next]_vars

\* The option dictionaries that decide how long the loop runs: the retry
\* count, the desired level and the shortcut; timing keys and buffer at
\* their defaults.
LoopBoundInputs ==
    { ("confirmation_retries" :> n) @@ c @@ s :
        n \in 0..MaxRetries, c \in CommitmentChoices, s \in SkipChoices }

NextFair ==
    \/ \E swap_response \in SwapResponses, opts \in LoopBoundInputs :
           PerformSwap(swap_response, opts)
    \/ \E resp \in LatestBlockhashResponses : GetLatestBlockhash(resp)
    \/ \E resp \in SendResponses : SendRawTransaction(resp)
    \/ \E status_resp \in StatusResponses : GetSignatureStatuses(status_resp)
    \/ \E resp \in BlockHeightResponses : GetBlockHeight(resp)

\* Every call and every sleep of the attempt returns: a step that is
\* possible is eventually taken.
FairSpec == Init /\ [][NextFair]_vars /\ WF_vars(NextFair)

----------------------------------------------------------------------------
(* An attempt whose caller asks for it to stop *)

\* The caller raises its signal while the attempt is in the polling loop.
\* perform_swap and the waiter take no deadline or cancellation parameter
\* and read no such signal, so nothing in the attempt changes.
RequestCancel ==
    /\ pc \in {"poll", "height"}
    /\ ~cancel_requested
    /\ cancel_requested' = TRUE
    /\ UNCHANGED << pc, options, last_valid_block_height, effective_lvbh,
                    signature, attempt, outcome, blockhash_fetches,
                    caller_options, heap, attempts >>
    /\ UNCHANGED comparator_vars
    /\ UNCHANGED history_vars

NextCancel == Next \/ RequestCancel

SpecCancel == Init /\ [][NextCancel]_vars

----------------------------------------------------------------------------
(* The comparator on its own: every pair of arguments *)

InitSufficient ==
    /\ pc = "call_sufficient"
    /\ current_status \in StatusValues
    /\ desired_status \in StatusValues
    /\ sufficient_result = FALSE
    /\ options = DEFAULT_TRANSACTION_OPTIONS
    /\ last_valid_block_height = 0
    /\ effective_lvbh = 0
    /\ signature = None
    /\ attempt = 0
    /\ outcome = NoOutcome
    /\ sends = 0
    /\ polls = <<>>
    /\ height_checks = 0
    /\ heights_seen = {}
    /\ current_bh = 0
    /\ height_raised = FALSE
    /\ slept = <<>>
    /\ slept_before_poll = <<>>
    /\ blockhash_fetches = 0
    /\ caller_options = <<>>
    /\ cancel_requested = FALSE
    /\ heap = InitialHeap
    /\ attempts = [p \in Attempts |-> NotStarted]

CallSufficient ==
    /\ pc = "call_sufficient"
    /\ sufficient_result' =
           is_commitment_level_sufficient(current_status, desired_status)
    /\ pc' = "returned"
    /\ UNCHANGED << options, last_valid_block_height, effective_lvbh,
                    signature, attempt, outcome, current_status,
                    desired_status, blockhash_fetches, caller_options,
                    cancel_requested, heap, attempts >>
    /\ UNCHANGED history_vars

NextSufficient == CallSufficient

SpecSufficient == InitSufficient /\ [][NextSufficient]_vars

----------------------------------------------------------------------------
(* Option resolution on its own: legacy and canonical timing keys *)

AliasValues == {100, 2500}

\* What a caller can say about one timing option: nothing, the legacy key,
\* the canonical key, or both with different values.
AliasChoices(old_key, new_key) ==
    {<<>>}
    \cup {(old_key :> v) : v \in AliasValues}
    \cup {(new_key :> v) : v \in AliasValues}
    \cup {(old_key :> p[1]) @@ (new_key :> p[2]) :
              p \in {q \in AliasValues \X AliasValues : q[1] # q[2]}}

AliasInputs ==
    { a @@ b @@ c :
        a \in AliasChoices(renamed_keys_map[1][1], renamed_keys_map[1][2]),
        b \in AliasChoices(renamed_keys_map[2][1], renamed_keys_map[2][2]),
        c \in AliasChoices(renamed_keys_map[3][1], renamed_keys_map[3][2]) }

InitOptions ==
    /\ pc = "resolve_options"
    /\ caller_options \in AliasInputs
    /\ options = DEFAULT_TRANSACTION_OPTIONS
    /\ last_valid_block_height = 0
    /\ effective_lvbh = 0
    /\ signature = None
    /\ attempt = 0
    /\ outcome = NoOutcome
    /\ sends = 0
    /\ polls = <<>>
    /\ height_checks = 0
    /\ heights_seen = {}
    /\ current_bh = 0
    /\ height_raised = FALSE
    /\ slept = <<>>
    /\ slept_before_poll = <<>>
    /\ current_status = None
    /\ desired_status = None
    /\ sufficient_result = FALSE
    /\ blockhash_fetches = 0
    /\ cancel_requested = FALSE
    /\ heap = InitialHeap
    /\ attempts = [p \in Attempts |-> NotStarted]

\* Lines 198-226 with the caller's dictionary.
ResolveCallerOptions ==
    /\ pc = "resolve_options"
    /\ options' = ResolveOptions(caller_options)
    /\ pc' = "options_resolved"
    /\ UNCHANGED << last_valid_block_height, effective_lvbh, signature,
                    attempt, outcome, blockhash_fetches, caller_options,
                    cancel_requested, heap, attempts >>
    /\ UNCHANGED comparator_vars
    /\ UNCHANGED history_vars

NextOptions == ResolveCallerOptions

SpecOptions == InitOptions /\ [][NextOptions]_vars

----------------------------------------------------------------------------
(* Two attempts at once, interleaved at their awaits *)

SendOptionChoices ==
    { <<>>,
      ("skip_preflight" :> FALSE),
      ("preflight_commitment" :> "finalized") }

\* What each caller passes: its send_options and its other keys.
ConcurrentInputs ==
    { [main |-> ("confirmation_retries" :> n) @@ b, send_options |-> so] :
        n \in 0..1, b \in BufferChoices, so \in SendOptionChoices }

InitConcurrent ==
    /\ pc = "concurrent"
    /\ heap = InitialHeap
    /\ attempts = [p \in Attempts |-> NotStarted]
    /\ options = DEFAULT_TRANSACTION_OPTIONS
    /\ last_valid_block_height = 0
    /\ effective_lvbh = 0
    /\ signature = None
    /\ attempt = 0
    /\ outcome = NoOutcome
    /\ sends = 0
    /\ polls = <<>>
    /\ height_checks = 0
    /\ heights_seen = {}
    /\ current_bh = 0
    /\ height_raised = FALSE
    /\ slept = <<>>
    /\ slept_before_poll = <<>>
    /\ current_status = None
    /\ desired_status = None
    /\ sufficient_result = FALSE
    /\ blockhash_fetches = 0
    /\ caller_options = <<>>
    /\ cancel_requested = FALSE

single_attempt_vars ==
    << pc, options, last_valid_block_height, effective_lvbh, signature,
       attempt, outcome, blockhash_fetches, history_vars, comparator_vars,
       caller_options, cancel_requested >>

\* Lines 228-238: the preflight commitment of the attempt.
PreflightCommitment(send_options, main_commitment_obj) ==
    IF "preflight_commitment" \in DOMAIN send_options
    THEN string_to_solana_commitment(send_options["preflight_commitment"])
    ELSE main_commitment_obj

\* Lines 198-247, which run without an await: the attempt's dictionaries
\* are built from the defaults and the caller's keys.
AttemptPerformSwap(p, input) ==
    /\ attempts[p].pc = "perform_swap"
    /\ LET ref == dict_copy(Ref_DEFAULT_TRANSACTION_OPTIONS_send_options,
                            NewDict(p))
           resolved == ResolveOptions(input.main)
           updated == DictUpdate(
                          heap[Ref_DEFAULT_TRANSACTION_OPTIONS_send_options],
                          input.send_options)
           preflight == PreflightCommitment(input.send_options,
                                            resolved["commitment"])
       IN  /\ heap' = [heap EXCEPT ![ref] =
                          DictUpdate(updated,
                                     ("preflight_commitment" :> preflight))]
           /\ attempts' = [attempts EXCEPT ![p] =
                  [@ EXCEPT !.pc = "get_latest_blockhash",
                            !.caller = input,
                            !.options = resolved,
                            !.send_options = ref]]
    /\ UNCHANGED single_attempt_vars

\* Lines 268-321: the blockhash call returns and the waiter runs up to its
\* send: TxOpts is built from the attempt's send_options as they are now.
AttemptGetLatestBlockhash(p, resp) ==
    /\ attempts[p].pc = "get_latest_blockhash"
    /\ IF resp.kind # "value"
       THEN attempts' = [attempts EXCEPT ![p].pc = "done"]
       ELSE LET send_opts_dict == heap[attempts[p].send_options]
                preflight == PreflightCommitment(
                                 attempts[p].caller.send_options,
                                 attempts[p].options["commitment"])
            IN  attempts' = [attempts EXCEPT ![p] =
                  [@ EXCEPT
                     !.pc = "send",
                     !.tx_opts =
                         [skip_preflight |->
                              DictGet(send_opts_dict, "skip_preflight",
                                      heap[Ref_DEFAULT_SEND_OPTIONS]
                                          ["skip_preflight"]),
                          preflight_commitment |-> preflight],
                     !.last_valid_block_height =
                         resp.last_valid_block_height,
                     !.effective_lvbh =
                         EffectiveLvbh(
                             resp.last_valid_block_height,
                             DictGet(attempts[p].options,
                                     "last_valid_block_height_buffer",
                                     DEFAULT_TRANSACTION_OPTIONS
                                         ["last_valid_block_height_buffer"]))]]
    /\ UNCHANGED heap
    /\ UNCHANGED single_attempt_vars

\* Line 326: the send returns or raises.
AttemptSendRawTransaction(p, resp) ==
    /\ attempts[p].pc = "send"
    /\ attempts' = [attempts EXCEPT ![p].pc =
                       IF resp.kind = "raise" THEN "done" ELSE "poll"]
    /\ UNCHANGED heap
    /\ UNCHANGED single_attempt_vars

\* Lines 341-381: one iteration of the polling loop, which either ends the
\* attempt or leaves it to the next value of the loop variable.
AttemptIteration(p, ends) ==
    /\ attempts[p].pc = "poll"
    /\ IF ~ends /\ LoopContinues(attempts[p].attempt,
                                 DictGet(attempts[p].options,
                                         "confirmation_retries",
                                         DEFAULT_TRANSACTION_OPTIONS
                                             ["confirmation_retries"]))
       THEN attempts' = [attempts EXCEPT ![p].attempt = @ + 1]
       ELSE attempts' = [attempts EXCEPT ![p].pc = "done"]
    /\ UNCHANGED heap
    /\ UNCHANGED single_attempt_vars

NextConcurrent ==
    \E p \in Attempts :
        \/ \E input \in ConcurrentInputs : AttemptPerformSwap(p, input)
        \/ \E resp \in LatestBlockhashResponses :
               AttemptGetLatestBlockhash(p, resp)
        \/ \E resp \in SendResponses : AttemptSendRawTransaction(p, resp)
        \/ \E ends \in BOOLEAN : AttemptIteration(p, ends)

SpecConcurrent == InitConcurrent /\ [][NextConcurrent]_vars

----------------------------------------------------------------------------
(* Vocabulary of the properties *)

\* Processed < Confirmed < Finalized
Rank(level) ==
    CASE level = TCS_Processed -> 0
      [] level = TCS_Confirmed -> 1
      [] level = TCS_Finalized -> 2

\* current >= desired under the order, both being one of the three levels.
LevelAtLeast(current, desired) ==
    /\ current \in TCS_Members
    /\ desired \in TCS_Members
    /\ Rank(current) >= Rank(desired)

\* The desired commitment of the attempt, as a confirmation status.
Desired ==
    CASE options["commitment"] = Processed -> TCS_Processed
      [] options["commitment"] = Confirmed -> TCS_Confirmed
      [] options["commitment"] = Finalized -> TCS_Finalized

\* The poll results of the Status Poller.
NotYetVisible(r) == r.kind = "null"
TransportError(r) == r.kind = "raise"
FailedStatus(r) == r.kind = "status" /\ r.err # None
ObservedSufficient(r) ==
    /\ r.kind = "status"
    /\ r.err = None
    /\ LevelAtLeast(r.confirmation_status, Desired)

\* The outcomes.
IsConfirmed == outcome.type = "str"
IsFailed == outcome.type = "TransactionFailedError"
IsExpired == outcome.type = "TransactionExpiredError"
IsTimedOut == outcome.type = "TransactionConfirmationTimeoutError"

Terminated == pc = "done"
SendSucceeded == signature # None
SkipSet == DictGet(options, "skip_confirmation_check", FALSE) = TRUE

RECURSIVE SumSeq(_)
SumSeq(q) == IF q = <<>> THEN 0 ELSE Head(q) + SumSeq(Tail(q))

----------------------------------------------------------------------------
(* Properties *)

\* C1: on whichever polling iteration i the status poll returns a status
\* with no error whose level is sufficient for the desired commitment, the
\* attempt ends on that iteration with the signature as its result,
\* whatever the earlier polls returned: that poll is the last one, and no
\* height check or sleep follows it (the i-1 earlier iterations made one
\* height check each).
C1_SufficientConfirmsOnThatIteration ==
    \A i \in 1..Len(polls) :
        ObservedSufficient(polls[i]) =>
            /\ i = Len(polls)
            /\ i <= DictGet(options, "confirmation_retries", 0) + 1
            /\ Terminated
            /\ outcome = ReturnStr(signature)
            /\ SendSucceeded
            /\ height_checks = i - 1
            /\ slept = <<>>

\* C1 witness: desired Confirmed, polls NotYetVisible, Observed(Processed),
\* Observed(Confirmed): confirmed on the third poll.
C1_Witness ==
    /\ Terminated
    /\ IsConfirmed
    /\ Desired = TCS_Confirmed
    /\ Len(polls) = 3
    /\ NotYetVisible(polls[1])
    /\ polls[2].kind = "status" /\ polls[2].confirmation_status = TCS_Processed
    /\ polls[3].kind = "status" /\ polls[3].confirmation_status = TCS_Confirmed
    /\ polls[3].err = None

\* C2: on every polling iteration, the first included, a status carrying
\* an on-chain error detail d ends the attempt at once with a
\* TransactionFailedError carrying the attempt's signature and exactly d:
\* that poll is the last one and no height check or sleep follows it.
C2_ErrorFailsImmediately ==
    \A i \in 1..Len(polls) :
        FailedStatus(polls[i]) =>
            /\ i = Len(polls)
            /\ Terminated
            /\ IsFailed
            /\ outcome.signature = signature
            /\ SendSucceeded
            /\ outcome.error_details = polls[i].err
            /\ height_checks = i - 1
            /\ slept = <<>>

\* C2 witness: the first poll carries an error, and the attempt has failed
\* with it.
C2_Witness ==
    /\ Terminated
    /\ IsFailed
    /\ Len(polls) = 1
    /\ polls[1].err = "InsufficientFunds"
    /\ outcome.error_details = "InsufficientFunds"

\* C3: with effective_expiry_height = reference_height - buffer, a height
\* check that returns h >= effective_expiry_height makes the outcome
\* Expired (never TimedOut, even with iterations left), and an Expired
\* outcome always rests on such a height: h < effective_expiry_height does
\* not produce Expired.
C3_HeightAtOrPastExpiryGivesExpired ==
    /\ (\E h \in heights_seen : h >= effective_lvbh) =>
           (Terminated /\ IsExpired)
    /\ IsExpired => \E h \in outcome.expired_at : h >= effective_lvbh

\* C4: for every confirmation_retries = N >= 0, when the send succeeded,
\* every status poll returned NotYetVisible and every observed height was
\* below effective_expiry_height, the attempt ends after exactly N+1 polls
\* with TimedOut carrying the signature.
C4_AllNotYetVisibleBelowExpiryTimesOut ==
    ( /\ Terminated
      /\ SendSucceeded
      /\ ~SkipSet
      /\ \A i \in 1..Len(polls) : NotYetVisible(polls[i])
      /\ ~height_raised
      /\ \A h \in heights_seen : h < effective_lvbh )
    => /\ Len(polls) = options["confirmation_retries"] + 1
       /\ outcome = TransactionConfirmationTimeoutError(signature)

\* C5: with skip_confirmation_check set, a successful send is followed at
\* once by the return of the signature: one send, no status poll, no
\* height check, no sleep.
C5_SkipReturnsSignatureAfterSend ==
    (SkipSet /\ SendSucceeded) =>
        /\ Terminated
        /\ outcome = ReturnStr(signature)
        /\ sends = 1
        /\ polls = <<>>
        /\ height_checks = 0
        /\ slept = <<>>
        /\ slept_before_poll = <<>>

\* C5 witness: an attempt with skip_confirmation_check that has returned
\* the signature after its send.
C5_Witness ==
    /\ Terminated
    /\ SkipSet
    /\ IsConfirmed
    /\ outcome.signature = "sigB"
    /\ sends = 1
    /\ polls = <<>>

\* C6: without skip_confirmation_check, the signature is returned only
\* when a status poll of the attempt returned a status without error whose
\* level is one of the three levels and at least the desired one; that poll
\* is the last one, so a NotYetVisible result, a transport error, an
\* insufficient level or an unrecognized level never leads to Confirmed.
C6_ConfirmedOnlyAfterSufficientStatus ==
    (Terminated /\ IsConfirmed /\ ~SkipSet) =>
        /\ \E i \in 1..Len(polls) : ObservedSufficient(polls[i])
        /\ polls # <<>>
        /\ ObservedSufficient(polls[Len(polls)])

\* C6 witness: desired Processed; a transport error, then an unrecognized
\* level, then Observed(Processed), which confirms.
C6_Witness ==
    /\ Terminated
    /\ IsConfirmed
    /\ ~SkipSet
    /\ Desired = TCS_Processed
    /\ Len(polls) = 3
    /\ TransportError(polls[1])
    /\ polls[2].kind = "status"
    /\ polls[2].confirmation_status = TCS_Unrecognized
    /\ polls[3].confirmation_status = TCS_Processed

\* C7: when all confirmation_retries+1 iterations are used up without a
\* terminal poll, the height observed last decides: Expired if it is at or
\* past effective_expiry_height, TimedOut otherwise; so TimedOut is
\* reported only with the last observed height below
\* effective_expiry_height.
C7_ExhaustedLoopFinalHeightDecides ==
    /\ ( /\ Terminated
         /\ polls # <<>>
         /\ Len(polls) = options["confirmation_retries"] + 1
         /\ ~FailedStatus(polls[Len(polls)])
         /\ ~ObservedSufficient(polls[Len(polls)])
         /\ height_checks > 0
         /\ ~height_raised )
       => IF current_bh >= effective_lvbh THEN IsExpired ELSE IsTimedOut
    /\ IsTimedOut => (height_checks > 0 /\ current_bh < effective_lvbh)

\* C8 as stated: after a status poll that raised, the sleep before the next
\* status poll totals confirmation_retry_timeout_ms (not the check
\* interval, nor the sum of the two).
C8_SleepAfterTransportErrorIsRetryTimeout ==
    (Len(polls) >= 2 /\ TransportError(polls[Len(polls) - 1])) =>
        SumSeq(slept_before_poll) = options["confirmation_retry_timeout_ms"]

\* C8 amended: after a status poll that raised, the driver sleeps
\* confirmation_retry_timeout_ms, and then, at the top of the next
\* iteration, confirmation_check_interval_ms as well: the sleep before the
\* next status poll is these two sleeps, and totals their sum.
C8_SleepAfterTransportErrorIsSum ==
    /\ (polls # <<>> /\ TransportError(polls[Len(polls)])) =>
           slept = << options["confirmation_retry_timeout_ms"] >>
    /\ (Len(polls) >= 2 /\ TransportError(polls[Len(polls) - 1])) =>
           /\ slept_before_poll =
                  << options["confirmation_retry_timeout_ms"],
                     options["confirmation_check_interval_ms"] >>
           /\ SumSeq(slept_before_poll) =
                  options["confirmation_retry_timeout_ms"]
                  + options["confirmation_check_interval_ms"]

\* C8 witness: desired Confirmed, a transport error on poll 1, then
\* Observed(Finalized) on poll 2: confirmed, with a retry timeout of 1000
\* and a check interval of 100 slept between the two polls.
C8_Witness ==
    /\ Terminated
    /\ IsConfirmed
    /\ Desired = TCS_Confirmed
    /\ Len(polls) = 2
    /\ TransportError(polls[1])
    /\ polls[2].kind = "status"
    /\ polls[2].confirmation_status = TCS_Finalized
    /\ slept_before_poll = <<1000, 100>>

\* C9: a status poll that raises never produces Failed; the status is
\* unknown, and when the height then observed is below
\* effective_expiry_height (the transaction is not expired) and iterations
\* remain, the driver goes on to the next poll; the erroring iteration
\* counts toward the confirmation_retries+1 iterations.
C9_TransportErrorIsUnknownNotFailed ==
    /\ (IsFailed /\ polls # <<>>) => ~TransportError(polls[Len(polls)])
    /\ ( /\ polls # <<>>
         /\ TransportError(polls[Len(polls)])
         /\ height_checks = Len(polls)
         /\ ~height_raised
         /\ current_bh < effective_lvbh
         /\ Len(polls) < options["confirmation_retries"] + 1 )
       => pc = "poll"
    /\ Len(polls) <= options["confirmation_retries"] + 1
    /\ pc = "poll" => attempt = Len(polls)

\* C10: the comparator returns true exactly when both arguments are among
\* Processed, Confirmed, Finalized and the rank of the current level is at
\* least the rank of the desired one; with an unrecognized argument on
\* either side it returns false (it returns a boolean for every pair).
C10_SufficientIffRankAtLeast ==
    pc = "returned" =>
        /\ sufficient_result \in BOOLEAN
        /\ sufficient_result = LevelAtLeast(current_status, desired_status)

\* C10 witness: the comparator has returned true for (Finalized, Processed).
C10_Witness ==
    /\ pc = "returned"
    /\ current_status = TCS_Finalized
    /\ desired_status = TCS_Processed
    /\ sufficient_result = TRUE

----------------------------------------------------------------------------
(* Properties of the whole attempt *)

\* The classes of the values perform_swap returns.
OutcomeTypes ==
    { "str", "TransactionFailedError", "TransactionExpiredError",
      "TransactionConfirmationTimeoutError", "ValueError", "RuntimeError",
      "Exception" }

\* C11: whatever the payload and whatever the send, blockhash, status and
\* height calls return or raise, perform_swap ends by returning one outcome
\* value (the signature string or an error object): nothing is returned
\* before the end, and no exception propagates to the caller.
C11_AlwaysReturnsOneOutcome ==
    /\ outcome.raised = FALSE
    /\ Terminated <=> outcome # NoOutcome
    /\ Terminated => outcome.type \in OutcomeTypes

\* C11 witness: a height check raised, and the attempt has ended by
\* returning an error object.
C11_Witness ==
    /\ Terminated
    /\ height_raised
    /\ outcome.type = "Exception"
    /\ outcome.raised = FALSE

\* C12: once the send has returned signature s, every terminal outcome of
\* the attempt carries s, the error outcomes included (also the one caused
\* by a failing height check).
C12_OutcomeCarriesSignature ==
    (Terminated /\ SendSucceeded) => outcome.signature = signature

\* The send call was made and raised.
SendFailed == sends > 0 /\ signature = None

\* C13: when the send call raises, the attempt ends at once with the
\* generic error outcome: the send is not repeated, there is no status
\* poll, no height check and no sleep, and the outcome is none of
\* Confirmed, Failed, Expired, TimedOut.
C13_SendFailureIsSetupError ==
    SendFailed =>
        /\ Terminated
        /\ sends = 1
        /\ polls = <<>>
        /\ height_checks = 0
        /\ slept = <<>>
        /\ slept_before_poll = <<>>
        /\ outcome = OtherError("Exception")
        /\ ~(IsConfirmed \/ IsFailed \/ IsExpired \/ IsTimedOut)

\* C13 witness: the blockhash was fetched, the send raised, the attempt is
\* over with the generic error.
C13_Witness ==
    /\ Terminated
    /\ SendFailed
    /\ blockhash_fetches = 1
    /\ outcome.type = "Exception"

\* The caller's dictionary with the legacy key of a pair replaced by the
\* canonical key, same value.
WithCanonicalKey(d, old_key, new_key) ==
    [k \in (DOMAIN d \ {old_key}) \cup {new_key} |->
        IF k = new_key THEN d[old_key] ELSE d[k]]

LegacyOnly(d, pair) == pair[1] \in DOMAIN d /\ pair[2] \notin DOMAIN d

BothGiven(d, pair) == pair[1] \in DOMAIN d /\ pair[2] \in DOMAIN d

AliasPairs == {renamed_keys_map[i] : i \in 1..Len(renamed_keys_map)}

SendOptionsAlone(input) ==
    DictUpdate(
        DictUpdate(DEFAULT_SEND_OPTIONS, input.send_options),
        ("preflight_commitment" :>
            PreflightCommitment(input.send_options,
                                ResolveOptions(input.main)["commitment"])))

Started(p) == attempts[p].pc # "perform_swap"

PastBlockhash(p) == attempts[p].tx_opts # NoTxOpts

\* C15: with two attempts interleaved at their awaits, the module-level
\* default dictionaries keep their initial contents, and each attempt's
\* resolved options, send options, TxOpts, loop variable and effective
\* expiry height are the ones its own input gives when it runs alone.
C15_AttemptsShareNoMutableState ==
    /\ heap[Ref_DEFAULT_SEND_OPTIONS] = DEFAULT_SEND_OPTIONS
    /\ heap[Ref_DEFAULT_TRANSACTION_OPTIONS_send_options]
           = DEFAULT_SEND_OPTIONS
    /\ \A p \in Attempts :
           Started(p) =>
              /\ attempts[p].options = ResolveOptions(attempts[p].caller.main)
              /\ heap[attempts[p].send_options]
                     = SendOptionsAlone(attempts[p].caller)
              /\ \A q \in Attempts \ {p} :
                     attempts[q].send_options # attempts[p].send_options
              /\ attempts[p].attempt
                     <= attempts[p].caller.main["confirmation_retries"]
              /\ PastBlockhash(p) =>
                     /\ attempts[p].tx_opts.skip_preflight
                            = SendOptionsAlone(attempts[p].caller)
                                  ["skip_preflight"]
                     /\ attempts[p].effective_lvbh
                            = attempts[p].last_valid_block_height
                              - DictGet(attempts[p].caller.main,
                                        "last_valid_block_height_buffer", 150)

C15_Witness ==
    /\ attempts[1].pc = "poll"
    /\ attempts[1].attempt = 1
    /\ attempts[1].caller.send_options = ("skip_preflight" :> FALSE)
    /\ attempts[1].effective_lvbh = 900
    /\ attempts[2].pc = "send"
    /\ DOMAIN attempts[2].caller.send_options = {}
    /\ attempts[2].tx_opts.skip_preflight = TRUE
    /\ attempts[2].effective_lvbh = 850

\* C16: once the caller's deadline/cancellation signal is raised, the
\* attempt makes no further network call (no send, status poll, height
\* query or blockhash query).
C16_NoNetworkCallAfterCancel ==
    [][cancel_requested =>
          /\ sends' = sends
          /\ polls' = polls
          /\ height_checks' = height_checks
          /\ blockhash_fetches' = blockhash_fetches]_vars

LastPoll == polls[Len(polls)]

EndsAttempt(r) == FailedStatus(r) \/ ObservedSufficient(r)

\* C17 (as stated): the chain height is queried in the loop only after a
\* status poll that raised a transport error.
C17_HeightQueriedOnlyAfterTransportError ==
    pc = "height" => TransportError(LastPoll)

\* C17 (amended): the chain height is queried at the end of every
\* iteration whose poll did not end the attempt, whatever that poll
\* returned: one query per such iteration, before the next status poll.
C17_HeightQueriedAfterEveryUnfinishedIteration ==
    /\ pc = "height" =>
           /\ polls # <<>>
           /\ ~EndsAttempt(LastPoll)
           /\ height_checks = Len(polls) - 1
    /\ pc = "poll" => height_checks = Len(polls)
    /\ (Terminated /\ polls # <<>> /\ ~EndsAttempt(LastPoll)) =>
           height_checks = Len(polls)

C17_Witness ==
    /\ pc = "height"
    /\ Len(polls) = 2
    /\ NotYetVisible(polls[1])
    /\ NotYetVisible(polls[2])
    /\ height_checks = 1
    /\ attempt < retries

\* C18: the raw transaction is sent at most once; a status poll or a
\* height comparison happens only after that one send has returned a
\* signature; the height that is compared, and the one an Expired outcome
\* reports, is one the height calls of this attempt returned.
C18_SentOnceBeforePollsAndComparisons ==
    /\ sends <= 1
    /\ (polls # <<>> \/ height_checks > 0) => (sends = 1 /\ SendSucceeded)
    /\ (height_checks > 0 /\ ~height_raised) => current_bh \in heights_seen
    /\ IsExpired =>
           /\ outcome.expired_at = {current_bh}
           /\ outcome.expired_at \subseteq heights_seen

C18_Witness ==
    /\ Terminated
    /\ IsExpired
    /\ sends = 1
    /\ Len(polls) = 2
    /\ height_checks = 2
    /\ heights_seen = {800, 900}

\* C19 (as stated): the reference height is fetched once, after the send
\* has returned a signature and before the first status poll.
C19_ReferenceHeightFetchedAfterSend ==
    /\ blockhash_fetches <= 1
    /\ blockhash_fetches = 1 => SendSucceeded
    /\ polls # <<>> => blockhash_fetches = 1

\* C19 (amended): the reference height is fetched once, before the raw
\* transaction is sent; effective_lvbh is set to reference height minus
\* buffer before the send and no later step changes either value.
C19_ReferenceHeightFetchedOnceBeforeSend ==
    [][ /\ blockhash_fetches' <= 1
        /\ sends' > sends =>
               /\ blockhash_fetches = 1
               /\ polls = <<>>
               /\ effective_lvbh =
                      last_valid_block_height
                      - DictGet(options, "last_valid_block_height_buffer",
                                DEFAULT_TRANSACTION_OPTIONS
                                    ["last_valid_block_height_buffer"])
        /\ blockhash_fetches = 1 =>
               /\ blockhash_fetches' = 1
               /\ effective_lvbh' = effective_lvbh
               /\ last_valid_block_height' = last_valid_block_height
      ]_vars

C19_Witness ==
    /\ pc = "height"
    /\ blockhash_fetches = 1
    /\ sends = 1
    /\ Len(polls) = 2
    /\ last_valid_block_height = 1000
    /\ effective_lvbh = 900

\* C20: when every call and sleep returns, the attempt ends, and at no
\* point has it made more than confirmation_retries + 1 status polls,
\* polls that raised included.
C20_TerminatesWithinRetryBudget ==
    /\ <>Terminated
    /\ [](Len(polls) <= retries + 1)

C20_Witness ==
    /\ Terminated
    /\ IsTimedOut
    /\ retries = 1
    /\ Len(polls) = retries + 1
    /\ TransportError(polls[1])
    /\ NotYetVisible(polls[2])

FourOutcomes == IsConfirmed \/ IsFailed \/ IsExpired \/ IsTimedOut

\* C21: a height check in the loop that raises does not end the attempt
\* with a generic error: the attempt goes on, or has ended as Confirmed,
\* Failed, Expired or TimedOut.
C21_HeightCheckErrorIsRecovered ==
    height_raised => (~Terminated \/ FourOutcomes)

SetupErrorTypes == {"ValueError", "RuntimeError", "Exception"}

\* C22: the raw transaction is sent only after the payload was decoded
\* and a latest-blockhash response with a height was obtained; an attempt
\* that ends without a send has returned an error value that is none of
\* the signature-carrying outcomes, and has made no status poll and no
\* height check.
C22_SetupFailureReturnsErrorUnsent ==
    /\ sends > 0 =>
           /\ blockhash_fetches = 1
           /\ last_valid_block_height \in RefHeights
    /\ (Terminated /\ sends = 0) =>
           /\ outcome.type \in SetupErrorTypes
           /\ outcome.raised = FALSE
           /\ outcome.signature = None
           /\ polls = <<>>
           /\ height_checks = 0

C22_Witness ==
    /\ Terminated
    /\ sends = 0
    /\ blockhash_fetches = 1
    /\ last_valid_block_height = 0
    /\ outcome.type = "RuntimeError"

ErrorWithSufficientLevel(r) ==
    /\ FailedStatus(r)
    /\ r.confirmation_status # None
    /\ LevelAtLeast(r.confirmation_status, Desired)

\* C23: a status that carries both an on-chain error and a confirmation
\* level sufficient for the desired commitment ends the attempt as Failed
\* with that error, never as Confirmed.
C23_ErrorPrecedesSufficientLevel ==
    \A i \in 1..Len(polls) :
        ErrorWithSufficientLevel(polls[i]) =>
            /\ Terminated
            /\ ~IsConfirmed
            /\ IsFailed
            /\ outcome.error_details = polls[i].err

C23_Witness ==
    /\ Terminated
    /\ IsFailed
    /\ Desired = TCS_Confirmed
    /\ Len(polls) = 2
    /\ polls[2].confirmation_status = TCS_Finalized
    /\ polls[2].err = outcome.error_details
    /\ ErrorWithSufficientLevel(polls[2])

====
